---- MODULE Spec2Model ----
(***************************************************************************)
(* State-machine model of the Slite -> Confluence migrator                 *)
(* (src/s2c_migator.py, driven by execute_migration in src/main.py).       *)
(*                                                                         *)
(* One process at a time runs execute_migration.  It may be killed at any  *)
(* step and started again; everything it keeps in memory is then lost and  *)
(* only the two JSON files (structure.json, url_map.json) and the          *)
(* destination survive.  Statements that only touch memory and have no     *)
(* I/O between them are one step; every API call and every file write is   *)
(* a step of its own, so that a kill can fall between any two of them.     *)
(***************************************************************************)
EXTENDS Integers, Sequences, FiniteSets, TLC

\* ------------------------------------------------------------------ bounds
NumChannels == 2
NumPages == 4
MaxMedia == 2
MaxRuns == 2

Channels == 1..NumChannels
Pages == 1..NumPages
\* A container is a dict of child pages: a channel's "children" (-c) or a
\* page's "children" (p).
ChanBox(c) == 0 - c
Containers == {ChanBox(c) : c \in Channels} \cup Pages

\* ----------------------------------------------------------------- strings
\* A string is a sequence of one-character strings.
Lower(s) ==
    LET lower(ch) == CASE ch = "A" -> "a"
                       [] ch = "B" -> "b"
                       [] ch = "C" -> "c"
                       [] ch = "D" -> "d"
                       [] ch = "E" -> "e"
                       [] OTHER -> ch
    IN [i \in 1..Len(s) |-> lower(s[i])]

RECURSIVE LStrip(_)
LStrip(s) == IF s # <<>> /\ Head(s) = " " THEN LStrip(Tail(s)) ELSE s

RECURSIVE RStrip(_)
RStrip(s) ==
    IF s # <<>> /\ s[Len(s)] = " " THEN RStrip(SubSeq(s, 1, Len(s) - 1)) ELSE s

Strip(s) == RStrip(LStrip(s))

\* key = title.strip().lower()
TitleKey(title) == Lower(Strip(title))

\* f"{old_title} ({parent_title})"
WithParent(old_title, parent_title) ==
    old_title \o <<" ", "(">> \o parent_title \o <<")">>

\* shortuuid.ShortUUID().random(8): eight characters drawn at random.
SuffixLen == 8
RandomSuffixes == {[i \in 1..SuffixLen |-> "x"], [i \in 1..SuffixLen |-> "y"]}

\* f"{new_title} {suffix}"
WithSuffix(new_title, suffix) == new_title \o <<" ">> \o suffix

\* The directory names of the channels: "C", "D", "E", ...
ChannelName(c) == <<(<<"C", "D", "E", "B">>)[c]>>

\* ------------------------------------------------------------ sequences
RECURSIVE Ascending(_)
Ascending(S) ==
    IF S = {} THEN <<>>
    ELSE LET m == CHOOSE x \in S : \A y \in S : x <= y
         IN <<m>> \o Ascending(S \ {m})

Range(s) == {s[i] : i \in 1..Len(s)}

RECURSIVE Without(_, _)
Without(s, x) ==
    IF s = <<>> THEN <<>>
    ELSE IF Head(s) = x THEN Without(Tail(s), x)
    ELSE <<Head(s)>> \o Without(Tail(s), x)

Replace(s, old, new) == [i \in 1..Len(s) |-> IF s[i] = old THEN new ELSE s[i]]

\* ------------------------------------------------------------ the source
\* The export on disk: each page's folder (the container it is listed in),
\* its file name without ".md", the number of files in its Media_ folder
\* and the local links its markdown holds.
PagePath(p) == <<"page", p>>
ChanPath(c) == <<"chan", c>>

\* The channel whose folder holds a container.
RECURSIVE ChannelOfBox(_, _)
ChannelOfBox(parent, box) ==
    IF box < 0 THEN 0 - box ELSE ChannelOfBox(parent, parent[box])

\* The file names of the pages: all different; or "A" and "a" in turn; or
\* page 2 named like page 1 once it carries its channel's name; or "A", "a"
\* and a file named like both once they carry it twice; or "A", "a" and two
\* files named like them once they carry it.
TitleLetters == <<"A", "B", "D", "E", "F">>
Nested ==
    [p \in Pages |-> IF p = 1 THEN <<"A">> ELSE IF p = 2 THEN <<"a">>
                     ELSE IF p = 3 THEN <<"A", " ", "(", "C", ")", " ", "(", "C", ")">>
                     ELSE <<TitleLetters[p]>>]
Doubled ==
    [p \in Pages |-> IF p = 1 THEN <<"A">> ELSE IF p = 2 THEN <<"a">>
                     ELSE IF p = 3 THEN <<"A", " ", "(", "C", ")">>
                     ELSE IF p = 4 THEN <<"a", " ", "(", "c", ")">>
                     ELSE <<TitleLetters[p]>>]
TitleChoices ==
    {[p \in Pages |-> <<TitleLetters[p]>>],
     [p \in Pages |-> IF p % 2 = 1 THEN <<"A">> ELSE <<"a">>],
     [p \in Pages |-> IF p = 2 THEN <<"A", " ", "(", "C", ")">> ELSE <<"A">>],
     Nested, Doubled}

\* The exports: page 1 lies in the first channel, every other page in a
\* channel's folder or in the folder of a page listed before it; no folder
\* holds two files of one name; a page after the second lies in the first
\* channel's folder or in the folder of the page before it.  The odd pages
\* have media files (the first page MaxMedia of them, the others one), and
\* the odd pages hold local links.  The exports with
\* the nested names are those whose pages all lie in the first channel's
\* folder.
SourceTrees ==
    {t \in [parent : [Pages -> Containers],
            title  : TitleChoices,
            media  : {[p \in Pages |-> IF p = 1 THEN MaxMedia
                                      ELSE IF p % 2 = 1 THEN 1 ELSE 0]},
            linked : {{p \in Pages : p % 2 = 1}}] :
        /\ t.parent[1] = ChanBox(1)
        /\ t.title \in {Nested, Doubled} => \A p \in Pages : t.parent[p] = ChanBox(1)
        /\ \A p \in Pages : p > 2 => t.parent[p] \in {ChanBox(1), p - 1}
        /\ \A p \in Pages : t.parent[p] < p
        /\ \A p, q \in Pages :
              (p # q /\ t.parent[p] = t.parent[q]) => t.title[p] # t.title[q]}

\* The local links of page p's markdown: none, or one to the root document
\* of its channel and one to the page listed after it.
LinksOf(t, p) ==
    IF p \in t.linked
    THEN {ChanPath(ChannelOfBox(t.parent, t.parent[p]))}
         \cup {PagePath(q) : q \in {p + 1} \cap Pages}
    ELSE {}

\* ------------------------------------------------------- the state tree
\* self.structure as a flat table: the channels present, each channel's
\* record, each container's child pages in dict order, each page's dict key
\* (its title) and record.  An empty dict {} is EmptyStruct.
BlankChannel == [space_id |-> 0, space_created |-> FALSE]
BlankPage ==
    [page_id |-> 0, uploaded |-> FALSE, media |-> <<>>,
     media_links_fixed |-> FALSE, links_fixed |-> FALSE]

EmptyStruct ==
    [chans |-> {},
     chan  |-> [c \in Channels |-> BlankChannel],
     kids  |-> [b \in Containers |-> <<>>],
     title |-> [p \in Pages |-> <<>>],
     page  |-> [p \in Pages |-> BlankPage]]

EmptyMap == <<>>

\* The pages of the tree below a container, depth first in dict order.
RECURSIVE PreorderSeq(_, _)
PreorderSeq(S, s) ==
    IF s = <<>> THEN <<>>
    ELSE <<Head(s)>> \o PreorderSeq(S, S.kids[Head(s)]) \o PreorderSeq(S, Tail(s))

RECURSIVE RootsOf(_, _)
RootsOf(S, cs) ==
    IF cs = <<>> THEN <<>>
    ELSE S.kids[ChanBox(Head(cs))] \o RootsOf(S, Tail(cs))

\* for channel, data in self.structure.items(): ... data["children"]
AllRoots(S) == RootsOf(S, Ascending(S.chans))

\* Every page of the state tree, channel by channel, depth first.
TreeOrder(S) == PreorderSeq(S, AllRoots(S))
InTree(S) == Range(TreeOrder(S))

\* A dict that lost a key loses the whole subtree below it: json.dump
\* writes only what the tree still reaches.
Prune(S) ==
    LET live == InTree(S)
    IN [S EXCEPT
          !.kids  = [b \in Containers |->
                        IF b < 0 \/ b \in live THEN S.kids[b] ELSE <<>>],
          !.title = [p \in Pages |-> IF p \in live THEN S.title[p] ELSE <<>>],
          !.page  = [p \in Pages |-> IF p \in live THEN S.page[p] ELSE BlankPage]]

\* ---------------------------------------------------------- discovery
\* A destination URL is <<"space", channel, 0>> for a space and
\* <<"page", channel, page id>> for a page.

\* generate_structure_json and _parse_page_tree, lines 42-128: the tree of
\* the export, nothing created or uploaded yet.
ParsePageTree(t) ==
    [chans |-> Channels,
     chan  |-> [c \in Channels |-> BlankChannel],
     kids  |-> [b \in Containers |-> Ascending({p \in Pages : t.parent[p] = b})],
     title |-> t.title,
     page  |-> [p \in Pages |->
                  [BlankPage EXCEPT !.media =
                      [i \in 1..t.media[p] |-> [uploaded |-> FALSE, error |-> ""]]]]]

ChannelUrls == [k \in {ChanPath(c) : c \in Channels} |-> <<"space", k[2], 0>>]

\* ------------------------------------------------------ deduplicate_titles
\* collect_titles: one entry (pages dict, title, parent_title) per page,
\* depth first.  The entry holds the dict it was found in and the key it
\* had at collection time.
RECURSIVE CollectTitles(_, _, _, _)
CollectTitles(S, s, box, parent_title) ==
    IF s = <<>> THEN <<>>
    ELSE LET n == Head(s)
         IN <<[box |-> box, old |-> S.title[n], ptitle |-> parent_title]>>
            \o (IF S.kids[n] # <<>>
                THEN CollectTitles(S, S.kids[n], n, S.title[n])
                ELSE <<>>)
            \o CollectTitles(S, Tail(s), box, parent_title)

\* The keys of title_map in insertion order.
RECURSIVE KeysInOrder(_, _)
KeysInOrder(entries, seen) ==
    IF entries = <<>> THEN <<>>
    ELSE LET k == TitleKey(Head(entries).old)
         IN IF k \in seen THEN KeysInOrder(Tail(entries), seen)
            ELSE <<k>> \o KeysInOrder(Tail(entries), seen \cup {k})

\* for key, entries in title_map.items(): if len(entries) <= 1: continue
RECURSIVE Colliding(_, _)
Colliding(entries, keys) ==
    IF keys = <<>> THEN <<>>
    ELSE LET g == SelectSeq(entries, LAMBDA e : TitleKey(e.old) = Head(keys))
         IN (IF Len(g) <= 1 THEN <<>> ELSE g) \o Colliding(entries, Tail(keys))

\* pages_dict[new_title] = pages_dict.pop(old_title): the value leaves its
\* place; an existing key new_title keeps its place and gets the value
\* (the page that was there is lost), otherwise the key is appended.
MoveKey(S, box, old_title, new_title) ==
    LET n    == CHOOSE x \in Range(S.kids[box]) : S.title[x] = old_title
        rest == Without(S.kids[box], n)
        hit  == {m \in Range(rest) : S.title[m] = new_title}
    IN [S EXCEPT
          !.kids[box] = IF hit = {} THEN Append(rest, n)
                        ELSE Replace(rest, CHOOSE m \in hit : TRUE, n),
          !.title[n]  = new_title]

\* One turn of the inner loop, lines 440-451.  st = the tree, used_titles
\* and the number of random suffixes drawn so far.
RenameEntry(st, e, rnd) ==
    LET new_title == WithParent(e.old, e.ptitle)
        clash     == new_title \in st.used
        final     == IF clash THEN WithSuffix(new_title, rnd[st.drawn + 1])
                     ELSE new_title
    IN [S     |-> MoveKey(st.S, e.box, e.old, final),
        used  |-> st.used \cup {final},
        drawn |-> IF clash THEN st.drawn + 1 ELSE st.drawn]

RECURSIVE RenameAll(_, _, _)
RenameAll(st, todo, rnd) ==
    IF todo = <<>> THEN st
    ELSE RenameAll(RenameEntry(st, Head(todo), rnd), Tail(todo), rnd)

\* The body of the loop over one space, lines 420-451.
DedupChannel(st, c, rnd) ==
    LET entries == CollectTitles(st.S, st.S.kids[ChanBox(c)], ChanBox(c),
                                 ChannelName(c))
        work    == Colliding(entries, KeysInOrder(entries, {}))
    IN RenameAll([st EXCEPT !.used = {}], work, rnd)

RECURSIVE DedupChannels(_, _, _)
DedupChannels(st, cs, rnd) ==
    IF cs = <<>> THEN st
    ELSE DedupChannels(DedupChannel(st, Head(cs), rnd), Tail(cs), rnd)

\* deduplicate_titles on a loaded tree; rnd[i] is the i-th random suffix.
DedupTitles(S, rnd) ==
    Prune(DedupChannels([S |-> S, used |-> {}, drawn |-> 0],
                        Ascending(S.chans), rnd).S)

\* ------------------------------------------------------------------ state
VARIABLES
    src,          \* the export on disk (never written)
    diskSKind,    \* structure.json: "absent", "ok" or "corrupt" (a torn write)
    diskS,        \* structure.json's tree when it is "ok"
    diskUKind,    \* url_map.json: "absent", "ok" or "corrupt"
    diskU,        \* url_map.json's map when it is "ok"
    memS,         \* self.structure
    memU,         \* self.url_map
    phase,        \* the method of execute_migration that runs; "idle": no process
    step,         \* the place in that method
    todo,         \* the units the running loop has still to visit
    tmp,          \* locals: the ids create_space returned, the file index,
                  \* the files whose image references markdown holds rewritten
    runs,         \* processes started so far
    okRun,        \* this process meets no transient destination failure
    outcome,      \* how and where the last process ended; resumed: the
                  \* process follows one that was killed in migrate_pages
    destSpaces,   \* destination: the space id of each channel's key, 0 if none
    destHome,     \* destination: each space's home page id
    destPages,    \* destination: the pages created
    nextId,       \* destination: the next identifier it hands out
    hist          \* the API call the last step issued (history, read by no action)

diskVars == <<diskSKind, diskS, diskUKind, diskU>>
memVars == <<memS, memU>>
runVars == <<runs, okRun, outcome>>
destVars == <<destSpaces, destHome, destPages, nextId>>
vars == <<src, diskVars, memVars, phase, step, todo, tmp, runVars, destVars, hist>>

NoTmp ==
    [space_id |-> 0, home_page_id |-> 0, file |-> 0, markdown |-> {},
     page_version_number |-> 0]

\* The API call a step issued: its operation, the channel or page it was
\* for, the media file, and whether it returned
\* (why: which republish a get_page or update_page belongs to); for an
\* update_page of a page, content: the media files whose image references
\* hold the attachment URL in the content sent; for a get_page or an
\* update_page, id: the page id passed, and version: the version number
\* get_page returned or update_page was given.
NoCall ==
    [op |-> "none", why |-> "", unit |-> 0, file |-> 0, ok |-> FALSE,
     content |-> {}, id |-> 0, version |-> 0]
Call(op, why, unit, file, ok) ==
    [op |-> op, why |-> why, unit |-> unit, file |-> file, ok |-> ok,
     content |-> {}, id |-> 0, version |-> 0]

\* self.client.get_page(page_id) of get_page_version_number, lines 521-523
GetPageCall(why, unit, page_id, number, ok) ==
    [Call("get_page", why, unit, 0, ok) EXCEPT !.id = page_id, !.version = number]

\* self.client.update_page(page_id, title, content, version, message)
UpdatePageCall(why, unit, page_id, content, version, ok) ==
    [Call("update_page", why, unit, 0, ok)
        EXCEPT !.id = page_id, !.content = content, !.version = version]

\* page["version"]["number"], line 523: the version the destination holds
MaxVersion == 2

\* An update that sends the version number as fetched.
SameVersion(number) == number

\* page_version_number += 1, lines 183, 496 and 598
NextVersion(number) == number + 1

Init ==
    /\ src \in SourceTrees
    /\ diskSKind = "absent" /\ diskS = EmptyStruct
    /\ diskUKind = "absent" /\ diskU = EmptyMap
    /\ memS = EmptyStruct /\ memU = EmptyMap
    /\ phase = "idle" /\ step = "" /\ todo = <<>> /\ tmp = NoTmp
    /\ runs = 0 /\ okRun = FALSE
    /\ outcome = [how |-> "none", phase |-> "", resumed |-> FALSE]
    /\ destSpaces = [c \in Channels |-> 0]
    /\ destHome = [c \in Channels |-> 0]
    /\ destPages = {}
    /\ nextId = 1
    /\ hist = NoCall

\* The process ends: its memory is gone.
Exit(how) ==
    /\ phase' = "idle" /\ step' = "" /\ todo' = <<>> /\ tmp' = NoTmp
    /\ memS' = EmptyStruct /\ memU' = EmptyMap
    /\ outcome' = [how |-> how, phase |-> phase, resumed |-> outcome.resumed]
    /\ UNCHANGED <<runs, okRun>>

At(ph, st) == phase = ph /\ step = st

\* _load_progress: the file's content replaces the dict; a missing file
\* leaves the dict as it is (an error is logged).
LoadProgress(kind, onDisk, inMem) == IF kind = "ok" THEN onDisk ELSE inMem

\* _save_progress("structure"): the whole tree is written.
SaveStructure ==
    /\ diskSKind' = "ok" /\ diskS' = memS
    /\ UNCHANGED <<diskUKind, diskU>>

\* _save_progress("url_map"): the whole map is written.
SaveUrlMap ==
    /\ diskUKind' = "ok" /\ diskU' = memU
    /\ UNCHANGED <<diskSKind, diskS>>

\* ------------------------------------------------------ execute_migration
Start ==
    /\ phase = "idle" /\ runs < MaxRuns
    /\ runs' = runs + 1
    /\ okRun' \in BOOLEAN
    /\ phase' = "generate" /\ step' = "check"
    /\ outcome' = [how |-> "running", phase |-> "",
                   resumed |-> outcome.how = "killed" /\ outcome.phase = "pages"]
    /\ hist' = NoCall
    /\ UNCHANGED <<src, diskVars, memVars, todo, tmp, destVars>>

\* A discovery that does not look for the state file: it builds the tree
\* again and writes it over the file.
GenerateAgain ==
    /\ At("generate", "check") /\ diskSKind # "absent"
    /\ memS' = ParsePageTree(src)
    /\ memU' = ChannelUrls @@ memU
    /\ phase' = "generate" /\ step' = "save_structure"
    /\ hist' = NoCall
    /\ UNCHANGED <<src, diskVars, todo, tmp, runVars, destVars>>

\* generate_structure_json, lines 38-40: the state file exists.
GenerateSkip ==
    /\ At("generate", "check") /\ diskSKind # "absent"
    /\ phase' = "dedup" /\ step' = "run"
    /\ hist' = NoCall
    /\ UNCHANGED <<src, diskVars, memVars, todo, tmp, runVars, destVars>>

\* generate_structure_json, lines 42-82.
GenerateBuild ==
    /\ At("generate", "check") /\ diskSKind = "absent"
    /\ memS' = ParsePageTree(src)
    /\ memU' = ChannelUrls @@ memU
    /\ phase' = "generate" /\ step' = "save_structure"
    /\ hist' = NoCall
    /\ UNCHANGED <<src, diskVars, todo, tmp, runVars, destVars>>

GenerateSaveStructure ==
    /\ At("generate", "save_structure")
    /\ SaveStructure
    /\ phase' = "generate" /\ step' = "save_url_map"
    /\ hist' = NoCall
    /\ UNCHANGED <<src, memVars, todo, tmp, runVars, destVars>>

GenerateSaveUrlMap ==
    /\ At("generate", "save_url_map")
    /\ SaveUrlMap
    /\ phase' = "dedup" /\ step' = "run"
    /\ hist' = NoCall
    /\ UNCHANGED <<src, memVars, todo, tmp, runVars, destVars>>

\* deduplicate_titles, lines 417-451.
DedupRun ==
    /\ At("dedup", "run") /\ diskSKind # "corrupt"
    /\ \E rnd \in [1..NumPages -> RandomSuffixes] :
          memS' = DedupTitles(LoadProgress(diskSKind, diskS, memS), rnd)
    /\ phase' = "dedup" /\ step' = "save_structure"
    /\ hist' = NoCall
    /\ UNCHANGED <<src, diskVars, memU, todo, tmp, runVars, destVars>>

\* json.load raises on a file that a killed write left incomplete.
DedupLoadFails ==
    /\ At("dedup", "run") /\ diskSKind = "corrupt"
    /\ Exit("aborted")
    /\ hist' = NoCall
    /\ UNCHANGED <<src, diskVars, destVars>>

DedupSave ==
    /\ At("dedup", "save_structure")
    /\ SaveStructure
    /\ phase' = "spaces" /\ step' = "load"
    /\ hist' = NoCall
    /\ UNCHANGED <<src, memVars, todo, tmp, runVars, destVars>>

\* -------------------------------------------------------- migrate_spaces
SpacesLoad ==
    /\ At("spaces", "load")
    /\ memS' = LoadProgress(diskSKind, diskS, memS)
    /\ todo' = Ascending(memS'.chans)
    /\ phase' = "spaces" /\ step' = "loop"
    /\ hist' = NoCall
    /\ UNCHANGED <<src, diskVars, memU, tmp, runVars, destVars>>

\* lines 160-162
SpaceSkip ==
    /\ At("spaces", "loop") /\ todo # <<>>
    /\ memS.chan[Head(todo)].space_created
    /\ todo' = Tail(todo)
    /\ hist' = NoCall
    /\ UNCHANGED <<src, diskVars, memVars, phase, step, tmp, runVars, destVars>>

\* lines 169-174, create_space answers 200: a space id and a home page id.
SpaceCreateOk ==
    /\ At("spaces", "loop") /\ todo # <<>>
    /\ LET c == Head(todo)
       IN /\ ~memS.chan[c].space_created
          /\ destSpaces[c] = 0
          /\ destSpaces' = [destSpaces EXCEPT ![c] = nextId]
          /\ destHome' = [destHome EXCEPT ![c] = nextId + 1]
          /\ nextId' = nextId + 2
          /\ tmp' = [tmp EXCEPT !.space_id = nextId, !.home_page_id = nextId + 1]
          /\ hist' = Call("create_space", "", c, 0, TRUE)
    /\ step' = "get_home"
    /\ UNCHANGED <<src, diskVars, memVars, phase, todo, runVars, destPages>>

\* lines 169-174, create_space raises: the key is taken at the destination,
\* or a transient failure outlasted the retries.
SpaceCreateFails ==
    /\ At("spaces", "loop") /\ todo # <<>>
    /\ LET c == Head(todo)
       IN /\ ~memS.chan[c].space_created
          /\ destSpaces[c] # 0 \/ ~okRun
          /\ hist' = Call("create_space", "", c, 0, FALSE)
    /\ Exit("aborted")
    /\ UNCHANGED <<src, diskVars, destVars>>

\* line 182, get_page of the home page
SpaceGetHome ==
    /\ At("spaces", "get_home")
    /\ step' = "update_home"
    /\ \E number \in 1..MaxVersion :
          /\ tmp' = [tmp EXCEPT !.page_version_number = NextVersion(number)]
          /\ hist' = GetPageCall("home", Head(todo), tmp.home_page_id, number, TRUE)
    /\ UNCHANGED <<src, diskVars, memVars, phase, todo, runVars, destVars>>

\* A binding that sets the flag and forgets the id.
BindSpaceFlagOnly(S, c, space_id) == [S EXCEPT !.chan[c].space_created = TRUE]

\* lines 198-200: if space_id: the id is bound and the flag set
BindSpace(S, c, space_id) ==
    IF space_id # 0
    THEN [S EXCEPT !.chan[c] = [space_id |-> space_id, space_created |-> TRUE]]
    ELSE S

\* lines 185-200, update_page answers 200
SpaceUpdateHome ==
    /\ At("spaces", "update_home")
    /\ memS' = BindSpace(memS, Head(todo), tmp.space_id)
    /\ step' = "save_structure"
    /\ hist' = UpdatePageCall("home", Head(todo), tmp.home_page_id, {},
                              tmp.page_version_number, TRUE)
    /\ UNCHANGED <<src, diskVars, memU, phase, todo, tmp, runVars, destVars>>

\* lines 182 and 185: get_page or update_page raises
SpaceHomeFails ==
    /\ phase = "spaces" /\ step \in {"get_home", "update_home"}
    /\ ~okRun
    /\ Exit("aborted")
    /\ hist' = IF step = "get_home"
               THEN GetPageCall("home", Head(todo), tmp.home_page_id, 0, FALSE)
               ELSE UpdatePageCall("home", Head(todo), tmp.home_page_id, {},
                                   tmp.page_version_number, FALSE)
    /\ UNCHANGED <<src, diskVars, destVars>>

\* line 201
SpaceSave ==
    /\ At("spaces", "save_structure")
    /\ SaveStructure
    /\ todo' = Tail(todo)
    /\ tmp' = NoTmp
    /\ step' = "loop"
    /\ hist' = NoCall
    /\ UNCHANGED <<src, memVars, phase, runVars, destVars>>

SpacesDone ==
    /\ At("spaces", "loop") /\ todo = <<>>
    /\ phase' = "pages" /\ step' = "load"
    /\ hist' = NoCall
    /\ UNCHANGED <<src, diskVars, memVars, todo, tmp, runVars, destVars>>

\* --------------------------------------------------------- migrate_pages
\* if page_data.get("children") and page_data.get("page_id"): recurse
\* (lines 394-400); the children are visited before the next sibling.
DescendPages(S, n, rest) ==
    IF S.kids[n] # <<>> /\ S.page[n].page_id # 0 THEN S.kids[n] \o rest ELSE rest

\* lines 232-238
PagesLoad ==
    /\ At("pages", "load")
    /\ memS' = LoadProgress(diskSKind, diskS, memS)
    /\ todo' = AllRoots(memS')
    /\ phase' = "pages" /\ step' = "loop"
    /\ hist' = NoCall
    /\ UNCHANGED <<src, diskVars, memU, tmp, runVars, destVars>>

\* A walk that does not look at the uploaded flag.
NeverUploaded(S, n) == FALSE

\* if page_data.get("uploaded"), line 375
AlreadyUploaded(S, n) == S.page[n].uploaded

\* lines 375-376 and 394-400
PageSkip ==
    /\ At("pages", "loop") /\ todo # <<>>
    /\ AlreadyUploaded(memS, Head(todo))
    /\ todo' = DescendPages(memS, Head(todo), Tail(todo))
    /\ hist' = NoCall
    /\ UNCHANGED <<src, diskVars, memVars, phase, step, tmp, runVars, destVars>>

\* The arguments of create_page for page n: the channel's space_id and the
\* parent_id handed down by the recursion (None under a channel).
SpaceIdOf(S, n) == S.chan[ChannelOfBox(src.parent, src.parent[n])].space_id
\* A recursion that hands no parent_id down.
NoParentId(S, n) == 0
ParentIdOf(S, n) == IF src.parent[n] < 0 THEN 0 ELSE S.page[src.parent[n]].page_id

\* The destination holds a page of that title in the space: it answers 400
\* "A page already exists with the same TITLE" (confluence_client.py:115).
TitleTaken(space_id, title) ==
    \E d \in destPages : d.space = space_id /\ d.title = title

\* A binding that sets the flag and forgets the id.
BindPageFlagOnly(S, n, page_id) == [S EXCEPT !.page[n].uploaded = TRUE]

\* lines 383-387: the id is bound, the flag set and the URL registered.
BindPage(S, n, page_id) ==
    [S EXCEPT !.page[n].page_id = page_id, !.page[n].uploaded = TRUE]

\* lines 378-387, create_page answers 200 with the new page's id.
PageCreateOk ==
    /\ At("pages", "loop") /\ todo # <<>>
    /\ LET n == Head(todo)
       IN /\ ~AlreadyUploaded(memS, n)
          /\ ~TitleTaken(SpaceIdOf(memS, n), memS.title[n])
          /\ destPages' = destPages \cup
                {[space |-> SpaceIdOf(memS, n), title |-> memS.title[n],
                  id |-> nextId, parent |-> ParentIdOf(memS, n), node |-> n]}
          /\ nextId' = nextId + 1
          /\ memS' = BindPage(memS, n, nextId)
          /\ memU' = (PagePath(n) :> <<"page", ChannelOfBox(src.parent, src.parent[n]),
                                        nextId>>) @@ memU
          /\ hist' = Call("create_page", "", n, 0, TRUE)
    /\ step' = "save_structure"
    /\ UNCHANGED <<src, diskVars, phase, todo, tmp, runVars, destSpaces, destHome>>

\* A create_page whose failure is logged and passed over.
PageCreateGoesOn ==
    /\ At("pages", "loop") /\ todo # <<>>
    /\ LET n == Head(todo)
       IN /\ ~AlreadyUploaded(memS, n)
          /\ TitleTaken(SpaceIdOf(memS, n), memS.title[n]) \/ ~okRun
          /\ hist' = Call("create_page", "", n, 0, FALSE)
    /\ todo' = Tail(todo)
    /\ UNCHANGED <<src, diskVars, memVars, phase, step, tmp, runVars, destVars>>

\* lines 378-380, create_page raises: the title is taken, or a transient
\* failure outlasted the retries.
PageCreateFails ==
    /\ At("pages", "loop") /\ todo # <<>>
    /\ LET n == Head(todo)
       IN /\ ~AlreadyUploaded(memS, n)
          /\ TitleTaken(SpaceIdOf(memS, n), memS.title[n]) \/ ~okRun
          /\ hist' = Call("create_page", "", n, 0, FALSE)
    /\ Exit("aborted")
    /\ UNCHANGED <<src, diskVars, destVars>>

\* line 389
PageSaveStructure ==
    /\ At("pages", "save_structure")
    /\ SaveStructure
    /\ step' = "save_url_map"
    /\ hist' = NoCall
    /\ UNCHANGED <<src, memVars, phase, todo, tmp, runVars, destVars>>

\* line 390, then lines 394-400
PageSaveUrlMap ==
    /\ At("pages", "save_url_map")
    /\ SaveUrlMap
    /\ todo' = DescendPages(memS, Head(todo), Tail(todo))
    /\ step' = "loop"
    /\ hist' = NoCall
    /\ UNCHANGED <<src, memVars, phase, tmp, runVars, destVars>>

PagesDone ==
    /\ At("pages", "loop") /\ todo = <<>>
    /\ phase' = "media" /\ step' = "load"
    /\ hist' = NoCall
    /\ UNCHANGED <<src, diskVars, memVars, todo, tmp, runVars, destVars>>

\* --------------------------------------------------------- migrate_media
\* if page_data.get("children"): recurse (lines 616-617)
DescendAll(S, n, rest) == IF S.kids[n] # <<>> THEN S.kids[n] \o rest ELSE rest

\* line 529 and lines 531-532
MediaLoad ==
    /\ At("media", "load")
    /\ memS' = LoadProgress(diskSKind, diskS, memS)
    /\ todo' = AllRoots(memS')
    /\ phase' = "media" /\ step' = "loop"
    /\ hist' = NoCall
    /\ UNCHANGED <<src, diskVars, memU, tmp, runVars, destVars>>

\* lines 539-540 and 616-617: the page has no media; or lines 546-547:
\* its media folder is not where the path computed on line 544 points.
MediaNothing ==
    /\ At("media", "loop") /\ todo # <<>>
    /\ todo' = DescendAll(memS, Head(todo), Tail(todo))
    /\ hist' = NoCall
    /\ UNCHANGED <<src, diskVars, memVars, phase, step, tmp, runVars, destVars>>

\* lines 540-549: the page has media and the folder is there
MediaFiles ==
    /\ At("media", "loop") /\ todo # <<>>
    /\ memS.page[Head(todo)].media # <<>>
    /\ tmp' = [tmp EXCEPT !.file = 1]
    /\ step' = "files"
    /\ hist' = NoCall
    /\ UNCHANGED <<src, diskVars, memVars, phase, todo, runVars, destVars>>

FileAt == memS.page[Head(todo)].media[tmp.file]
InFiles == At("media", "files") /\ tmp.file <= Len(memS.page[Head(todo)].media)

\* A file loop that does not look at the uploaded flag.
NeverSent(status) == FALSE

\* if status["uploaded"], line 550
AlreadySent(status) == status.uploaded

\* lines 550-552
MediaFileSkip ==
    /\ InFiles /\ AlreadySent(FileAt)
    /\ tmp' = [tmp EXCEPT !.file = @ + 1]
    /\ hist' = NoCall
    /\ UNCHANGED <<src, diskVars, memVars, phase, step, todo, runVars, destVars>>

\* lines 556-559: the file is not there
MediaFileMissing ==
    /\ InFiles /\ ~AlreadySent(FileAt)
    /\ memS' = [memS EXCEPT !.page[Head(todo)].media[tmp.file].error = "file not found"]
    /\ tmp' = [tmp EXCEPT !.file = @ + 1]
    /\ hist' = NoCall
    /\ UNCHANGED <<src, diskVars, memU, phase, step, todo, runVars, destVars>>

\* lines 561-565: upload_attachment returns
MediaUploadOk ==
    /\ InFiles /\ ~AlreadySent(FileAt)
    /\ memS' = [memS EXCEPT !.page[Head(todo)].media[tmp.file].uploaded = TRUE]
    /\ hist' = Call("upload_attachment", "", Head(todo), tmp.file, TRUE)
    /\ step' = "save_upload"
    /\ UNCHANGED <<src, diskVars, memU, phase, todo, tmp, runVars, destVars>>

\* line 567
MediaSaveUpload ==
    /\ At("media", "save_upload")
    /\ SaveStructure
    /\ tmp' = [tmp EXCEPT !.file = @ + 1]
    /\ step' = "files"
    /\ hist' = NoCall
    /\ UNCHANGED <<src, memVars, phase, todo, runVars, destVars>>

\* An upload whose exception nothing catches.
MediaUploadAborts ==
    /\ InFiles /\ ~AlreadySent(FileAt) /\ ~okRun
    /\ hist' = Call("upload_attachment", "", Head(todo), tmp.file, FALSE)
    /\ Exit("aborted")
    /\ UNCHANGED <<src, diskVars, destVars>>

\* lines 561-563 and 569-571: upload_attachment raises, the loop goes on
MediaUploadFails ==
    /\ InFiles /\ ~AlreadySent(FileAt) /\ ~okRun
    /\ memS' = [memS EXCEPT !.page[Head(todo)].media[tmp.file].error = "upload failed"]
    /\ hist' = Call("upload_attachment", "", Head(todo), tmp.file, FALSE)
    /\ tmp' = [tmp EXCEPT !.file = @ + 1]
    /\ UNCHANGED <<src, diskVars, memU, phase, step, todo, runVars, destVars>>

FilesDone == At("media", "files") /\ tmp.file > Len(memS.page[Head(todo)].media)

\* if page_data["media_links_fixed"], line 573
MediaLinked(S, n) == S.page[n].media_links_fixed

\* lines 573-575: continue, which also skips the recursion of line 616
MediaAlreadyLinked ==
    /\ FilesDone /\ MediaLinked(memS, Head(todo))
    /\ todo' = Tail(todo)
    /\ tmp' = NoTmp
    /\ step' = "loop"
    /\ hist' = NoCall
    /\ UNCHANGED <<src, diskVars, memVars, phase, runVars, destVars>>

\* file.read(), lines 486-487 and 577-578: the markdown as the export
\* holds it, no image reference rewritten.
ReadMarkdown == {}

\* lines 580-590: for filename, status in media_files.items() substitutes
\* the attachment URL for the target of the image references that end in
\* the file name.  The markdown of a page holds one image reference for
\* each of its media files.
RewriteMedia(S, n) == ReadMarkdown \cup 1..Len(S.page[n].media)

\* lines 577-598: the references are rewritten and get_page returns
MediaGetPage ==
    /\ FilesDone /\ ~MediaLinked(memS, Head(todo))
    /\ step' = "update"
    /\ \E number \in 1..MaxVersion :
          /\ tmp' = [tmp EXCEPT !.markdown = RewriteMedia(memS, Head(todo)),
                                !.page_version_number = NextVersion(number)]
          /\ hist' = GetPageCall("media", Head(todo), memS.page[Head(todo)].page_id,
                                 number, TRUE)
    /\ UNCHANGED <<src, diskVars, memVars, phase, todo, runVars, destVars>>

\* lines 600-609: update_page returns the page id
MediaUpdatePage ==
    /\ At("media", "update")
    /\ memS' = [memS EXCEPT !.page[Head(todo)].media_links_fixed = TRUE]
    /\ hist' = UpdatePageCall("media", Head(todo), memS.page[Head(todo)].page_id,
                              tmp.markdown, tmp.page_version_number, TRUE)
    /\ step' = "save_links"
    /\ UNCHANGED <<src, diskVars, memU, phase, todo, tmp, runVars, destVars>>

\* A republish whose failure is passed over: the flag is set all the same.
MediaPublishIgnored ==
    /\ (FilesDone /\ ~MediaLinked(memS, Head(todo))) \/ At("media", "update")
    /\ ~okRun
    /\ hist' = Call(IF step = "update" THEN "update_page" ELSE "get_page",
                    "media", Head(todo), 0, FALSE)
    /\ memS' = [memS EXCEPT !.page[Head(todo)].media_links_fixed = TRUE]
    /\ step' = "save_links"
    /\ UNCHANGED <<src, diskVars, memU, phase, todo, tmp, runVars, destVars>>

\* lines 597 and 600: get_page or update_page raises
MediaPublishFails ==
    /\ (FilesDone /\ ~MediaLinked(memS, Head(todo))) \/ At("media", "update")
    /\ ~okRun
    /\ hist' = IF step = "update"
               THEN UpdatePageCall("media", Head(todo), memS.page[Head(todo)].page_id,
                                   tmp.markdown, tmp.page_version_number, FALSE)
               ELSE GetPageCall("media", Head(todo), memS.page[Head(todo)].page_id,
                                0, FALSE)
    /\ Exit("aborted")
    /\ UNCHANGED <<src, diskVars, destVars>>

\* line 610, then lines 616-617
MediaSaveLinks ==
    /\ At("media", "save_links")
    /\ SaveStructure
    /\ todo' = DescendAll(memS, Head(todo), Tail(todo))
    /\ tmp' = NoTmp
    /\ step' = "loop"
    /\ hist' = NoCall
    /\ UNCHANGED <<src, memVars, phase, runVars, destVars>>

MediaDone ==
    /\ At("media", "loop") /\ todo = <<>>
    /\ phase' = "fix" /\ step' = "load"
    /\ hist' = NoCall
    /\ UNCHANGED <<src, diskVars, memVars, todo, tmp, runVars, destVars>>

\* ---------------------------------------------------- fix_all_references
\* line 471 and lines 517-519
FixLoad ==
    /\ At("fix", "load")
    /\ memS' = LoadProgress(diskSKind, diskS, memS)
    /\ todo' = AllRoots(memS')
    /\ phase' = "fix" /\ step' = "loop"
    /\ hist' = NoCall
    /\ UNCHANGED <<src, diskVars, memU, tmp, runVars, destVars>>

\* A walk that does not look at the links_fixed flag.
NeverFixed(S, n) == FALSE

\* if page_data.get("links_fixed"), line 483
LinksFixed(S, n) == S.page[n].links_fixed

\* lines 479-481: no page id, continue without the recursion;
\* lines 483-484 and 514-515: the links are fixed already
FixSkip ==
    /\ At("fix", "loop") /\ todo # <<>>
    /\ LET n == Head(todo)
       IN /\ memS.page[n].page_id = 0 \/ LinksFixed(memS, n)
          /\ todo' = IF memS.page[n].page_id = 0 THEN Tail(todo)
                     ELSE DescendAll(memS, n, Tail(todo))
    /\ hist' = NoCall
    /\ UNCHANGED <<src, diskVars, memVars, phase, step, tmp, runVars, destVars>>

\* A comparison that finds every markdown changed.
EverChanged(U, n) == {PagePath(n)}

\* replace_local_slite_links changes the markdown when a link's target,
\* prefixed with base_dir, is a key of the URL map (lines 459-468).
Resolvable(U, n) == LinksOf(src, n) \cap DOMAIN U

\* lines 486-489: the markdown is read and replace_local_slite_links loads
\* url_map.json (line 456); then line 491 decides.
FixResolve ==
    /\ At("fix", "loop") /\ todo # <<>>
    /\ diskUKind # "corrupt"
    /\ LET n == Head(todo)
       IN /\ memS.page[n].page_id # 0 /\ ~LinksFixed(memS, n)
          /\ tmp' = [tmp EXCEPT !.markdown = ReadMarkdown]
          /\ memU' = LoadProgress(diskUKind, diskU, memU)
          /\ IF Resolvable(memU', n) = {}
             THEN /\ todo' = DescendAll(memS, n, Tail(todo))    \* line 512
                  /\ step' = "loop"
             ELSE /\ todo' = todo                               \* line 492
                  /\ step' = "get"
    /\ hist' = NoCall
    /\ UNCHANGED <<src, diskVars, memS, phase, runVars, destVars>>

\* json.load raises on an incomplete url_map.json
FixLoadFails ==
    /\ At("fix", "loop") /\ todo # <<>>
    /\ diskUKind = "corrupt"
    /\ memS.page[Head(todo)].page_id # 0 /\ ~LinksFixed(memS, Head(todo))
    /\ Exit("aborted")
    /\ hist' = NoCall
    /\ UNCHANGED <<src, diskVars, destVars>>

\* lines 495-496: get_page returns
FixGetPage ==
    /\ At("fix", "get")
    /\ step' = "update"
    /\ \E number \in 1..MaxVersion :
          /\ tmp' = [tmp EXCEPT !.page_version_number = NextVersion(number)]
          /\ hist' = GetPageCall("links", Head(todo), memS.page[Head(todo)].page_id,
                                 number, TRUE)
    /\ UNCHANGED <<src, diskVars, memVars, phase, todo, runVars, destVars>>

\* lines 498-506: update_page returns the page id
FixUpdatePage ==
    /\ At("fix", "update")
    /\ memS' = [memS EXCEPT !.page[Head(todo)].links_fixed = TRUE]
    /\ hist' = UpdatePageCall("links", Head(todo), memS.page[Head(todo)].page_id,
                              tmp.markdown, tmp.page_version_number, TRUE)
    /\ step' = "save_structure"
    /\ UNCHANGED <<src, diskVars, memU, phase, todo, tmp, runVars, destVars>>

\* lines 495 and 498: get_page or update_page raises
FixPublishFails ==
    /\ phase = "fix" /\ step \in {"get", "update"}
    /\ ~okRun
    /\ hist' = IF step = "get"
               THEN GetPageCall("links", Head(todo), memS.page[Head(todo)].page_id,
                                0, FALSE)
               ELSE UpdatePageCall("links", Head(todo), memS.page[Head(todo)].page_id,
                                   tmp.markdown, tmp.page_version_number, FALSE)
    /\ Exit("aborted")
    /\ UNCHANGED <<src, diskVars, destVars>>

\* line 508, then lines 514-515; the locals of the turn are left behind
FixSave ==
    /\ At("fix", "save_structure")
    /\ SaveStructure
    /\ todo' = DescendAll(memS, Head(todo), Tail(todo))
    /\ tmp' = NoTmp
    /\ step' = "loop"
    /\ hist' = NoCall
    /\ UNCHANGED <<src, memVars, phase, runVars, destVars>>

\* execute_migration returns
Finish ==
    /\ At("fix", "loop") /\ todo = <<>>
    /\ Exit("done")
    /\ hist' = NoCall
    /\ UNCHANGED <<src, diskVars, destVars>>

\* ------------------------------------------------------------- the kill
\* The process is killed between two steps.
Kill ==
    /\ phase # "idle"
    /\ Exit("killed")
    /\ hist' = NoCall
    /\ UNCHANGED <<src, diskVars, destVars>>

\* The process is killed inside _save_progress: open(path, "w") has emptied
\* the file and json.dump has written only part of it (lines 141-142).
TornWrite ==
    /\ phase # "idle"
    /\ \/ /\ step \in {"save_structure", "save_upload", "save_links"}
          /\ diskSKind' = "corrupt" /\ diskS' = EmptyStruct
          /\ UNCHANGED <<diskUKind, diskU>>
       \/ /\ step = "save_url_map"
          /\ diskUKind' = "corrupt" /\ diskU' = EmptyMap
          /\ UNCHANGED <<diskSKind, diskS>>
    /\ Exit("killed")
    /\ hist' = NoCall
    /\ UNCHANGED <<src, destVars>>

\* The steps of the methods, the exceptions of the API calls included.
Steps ==
    \/ Start
    \/ GenerateSkip \/ GenerateBuild \/ GenerateSaveStructure \/ GenerateSaveUrlMap
    \/ DedupRun \/ DedupSave
    \/ SpacesLoad \/ SpaceSkip \/ SpaceCreateOk \/ SpaceCreateFails
    \/ SpaceGetHome \/ SpaceUpdateHome \/ SpaceHomeFails \/ SpaceSave \/ SpacesDone
    \/ PagesLoad \/ PageSkip \/ PageCreateOk \/ PageCreateFails
    \/ PageSaveStructure \/ PageSaveUrlMap \/ PagesDone
    \/ MediaLoad \/ MediaNothing \/ MediaFiles \/ MediaFileSkip \/ MediaFileMissing
    \/ MediaUploadOk \/ MediaSaveUpload \/ MediaUploadFails \/ MediaAlreadyLinked
    \/ MediaGetPage \/ MediaUpdatePage \/ MediaPublishFails \/ MediaSaveLinks
    \/ MediaDone
    \/ FixLoad \/ FixSkip \/ FixResolve \/ FixGetPage \/ FixUpdatePage
    \/ FixPublishFails \/ FixSave \/ Finish

\* The kills, and what a file left incomplete by a kill does to a later run.
Next == Steps \/ Kill \/ TornWrite \/ DedupLoadFails \/ FixLoadFails

\* Runs that may be killed at any step and started again.
Spec == Init /\ [][Next]_vars

\* Runs that end only by returning or by an exception of an API call.
SpecNoKill == Init /\ [][Steps]_vars

\* --------------------------------------------------- a function on its own
\* The state in which one method is called on its own: no migration runs,
\* there is no structure.json and nothing at the destination; url_map.json
\* holds one of maps (the empty map: there is no file); the call starts at
\* step st with the locals (tmp) and the work (todo) of one of calls.
Alone(ph, st, maps, calls) ==
    /\ src = CHOOSE t \in SourceTrees : TRUE
    /\ diskSKind = "absent" /\ diskS = EmptyStruct
    /\ diskU \in maps /\ diskUKind = (IF diskU = EmptyMap THEN "absent" ELSE "ok")
    /\ memS = EmptyStruct /\ memU = EmptyMap
    /\ phase = ph /\ step = st
    /\ \E call \in calls : tmp = call.tmp /\ todo = call.todo
    /\ runs = 0 /\ okRun = FALSE
    /\ outcome = [how |-> "none", phase |-> "", resumed |-> FALSE]
    /\ destSpaces = [c \in Channels |-> 0]
    /\ destHome = [c \in Channels |-> 0]
    /\ destPages = {}
    /\ nextId = 1
    /\ hist = NoCall

\* What a function on its own leaves alone, but for step, todo and tmp.
RenderRest == <<src, diskVars, memVars, phase, runVars, destVars, hist>>

\* ------------------------------------------------------ ConfluenceClient
\* A client operation called on its own: phase is "client", step the place
\* in the operation, tmp its locals.  The server answers every request with
\* a status of its choice.
DefaultRetries == 5
UploadRetries == 3
Statuses == {200, 201, 204, 302, 400, 404, 429, 500, 502, 503, 504}

\* max_retries of the operation's call of _make_request
MaxRetriesOf(op) == IF op = "upload_attachment" THEN UploadRetries ELSE DefaultRetries

\* if response.status_code in (429, 500, 502, 503, 504), line 53
Retryable == {429, 500, 502, 503, 504}

\* A back-off that grows by one second.
LinearWait(attempt) == attempt

\* wait_time = 2 ** (attempt - 1), line 54
WaitTime(attempt) == 2 ^ (attempt - 1)

\* A check that takes every response below 400 for a success.
AnyBelow400(op) == {st \in Statuses : st < 400}

\* The statuses on which the operation returns a value.
SuccessOf(op) == IF op = "get_page" THEN {200} ELSE {200, 201}

\* The locals of an operation: the statuses received (the last one is
\* response), the times slept, attempt of the loop, and the status the
\* exception raised carries.
NoRequest ==
    [op |-> "", max_retries |-> 0, attempt |-> 0, seen |-> <<>>, slept |-> <<>>,
     error |-> 0]

\* An operation calls _make_request, lines 24-38.
ClientCall ==
    /\ At("client", "call")
    /\ \E op \in {"create_space", "create_page", "update_page", "get_page",
                  "upload_attachment"} :
          tmp' = [NoRequest EXCEPT !.op = op, !.max_retries = MaxRetriesOf(op),
                                   !.attempt = 1]
    /\ step' = "send"
    /\ UNCHANGED <<todo, RenderRest>>

\* lines 39-51: a response below 400 is returned
SendAnswered ==
    /\ At("client", "send") /\ tmp.attempt <= tmp.max_retries
    /\ \E st \in Statuses :
          /\ st < 400
          /\ tmp' = [tmp EXCEPT !.seen = Append(@, st)]
    /\ step' = "check"
    /\ UNCHANGED <<todo, RenderRest>>

\* lines 39-57: a response of line 53 is slept on, and the loop goes on
SendRetried ==
    /\ At("client", "send") /\ tmp.attempt <= tmp.max_retries
    /\ \E st \in Statuses :
          /\ st >= 400 /\ st \in Retryable
          /\ tmp' = [tmp EXCEPT !.seen = Append(@, st),
                                !.slept = Append(@, WaitTime(tmp.attempt)),
                                !.attempt = @ + 1]
    /\ UNCHANGED <<step, todo, RenderRest>>

\* lines 39-60: any other response breaks the loop; lines 62-63
SendRefused ==
    /\ At("client", "send") /\ tmp.attempt <= tmp.max_retries
    /\ \E st \in Statuses :
          /\ st >= 400 /\ st \notin Retryable
          /\ tmp' = [tmp EXCEPT !.seen = Append(@, st)]
    /\ step' = "check"
    /\ UNCHANGED <<todo, RenderRest>>

\* lines 38 and 62-63: the attempts are used up, the last response is returned
SendGivenUp ==
    /\ At("client", "send") /\ tmp.attempt > tmp.max_retries
    /\ step' = "check"
    /\ UNCHANGED <<tmp, todo, RenderRest>>

\* The operation returns a value (lines 85-86, 110-113, 144-147, 158-159).
ClientReturns ==
    /\ At("client", "check")
    /\ tmp.seen[Len(tmp.seen)] \in SuccessOf(tmp.op)
    /\ step' = "returned"
    /\ UNCHANGED <<tmp, todo, RenderRest>>

\* The operation raises an exception whose text holds the status and the
\* body of the response (lines 88-90, 115-122, 149-152, 160-163, 181-184).
ClientRaises ==
    /\ At("client", "check")
    /\ tmp.seen[Len(tmp.seen)] \notin SuccessOf(tmp.op)
    /\ tmp' = [tmp EXCEPT !.error = tmp.seen[Len(tmp.seen)]]
    /\ step' = "raised"
    /\ UNCHANGED <<todo, RenderRest>>

\* The operations of the client, each against a server that answers as it
\* likes.
ClientSpec ==
    Alone("client", "call", {EmptyMap}, {[tmp |-> NoRequest, todo |-> <<>>]})
    /\ [][\/ ClientCall \/ SendAnswered \/ SendRetried \/ SendRefused
          \/ SendGivenUp \/ ClientReturns \/ ClientRaises]_vars

\* --------------------------------------------------- convert_admonitions
\* The paragraphs of one blockquote of the HTML.  A paragraph is its inner
\* HTML as a sequence of tokens: "[", "!", "]", " ", a tag, or a word (a
\* longest run of word characters).
MaxParagraphs == 2
Tags == {"<strong>", "</strong>"}

Blockquotes ==
    LET paragraphs ==
          {<<"[", "!", "NOTE", "]", " ", "text">>,
           <<"[", "!", "Warning", "]", " ", "text">>,
           <<"[", "!", "tip", "]", " ", "text">>,
           <<"[", "!", "IMPORTANT", "]", " ", "text">>,
           <<"[", "!", "caution", "]", "text">>,
           <<"[", "!", "danger", "]", " ", "text">>,
           <<"[", "!", "NOTE", "]">>,
           <<"text">>,
           <<"text", " ", "[", "!", "NOTE", "]">>,
           <<"<strong>", "[", "!", "NOTE", "]", "</strong>", " ", "text">>}
    IN UNION {[1..k -> paragraphs] : k \in 1..MaxParagraphs}

\* p.text: the strings of the paragraph without its tags
TextOf(p) == SelectSeq(p, LAMBDA t : t \notin Tags)

\* A string begins with [!word]
BeginsWithMarker(str) ==
    /\ Len(str) >= 4
    /\ str[1] = "[" /\ str[2] = "!" /\ str[4] = "]"
    /\ str[3] \notin Tags \cup {"[", "!", "]", " "}

\* re.match(r'\[\!(\w+)\]', p.text.strip()), line 324
MatchAdmonition(p) == BeginsWithMarker(Strip(TextOf(p)))

\* match_admonition.group(1).lower(), line 327
AdmonitionType(p) ==
    LET word == Strip(TextOf(p))[3]
    IN CASE word = "NOTE" -> "note"
         [] word = "Warning" -> "warning"
         [] word = "IMPORTANT" -> "important"
         [] OTHER -> word

\* macro_map.get(admonition_type, 'info'), lines 330-338
MacroName(admonition_type) ==
    CASE admonition_type = "note" -> "info"
      [] admonition_type = "warning" -> "warning"
      [] admonition_type = "tip" -> "tip"
      [] admonition_type = "important" -> "important"
      [] admonition_type = "caution" -> "caution"
      [] OTHER -> "info"

\* re.sub(r'^\[\!\w+\]\s*', '', p.decode_contents()), line 341;
\* p.decode_contents() is the inner HTML, the paragraph as it is modelled.
RemoveMarker(p) ==
    IF BeginsWithMarker(p) THEN LStrip(SubSeq(p, 5, Len(p))) ELSE p

\* convert_admonitions on one blockquote.  tmp holds its locals: paragraphs,
\* and new_blocks, each block with the place of its paragraph in the
\* blockquote (para); todo is the paragraphs still to visit.

\* lines 350-352: no marker, the paragraph itself is kept
ParagraphPlain ==
    /\ At("render", "paragraphs") /\ todo # <<>>
    /\ ~MatchAdmonition(Head(todo))
    /\ tmp' = [tmp EXCEPT !.new_blocks =
                  Append(@, [tag |-> "p", name |-> "", body |-> Head(todo),
                             para |-> Len(tmp.paragraphs) - Len(todo) + 1])]
    /\ todo' = Tail(todo)
    /\ UNCHANGED <<step, RenderRest>>

\* lines 326-345: a marker and nothing after it, the paragraph is skipped
ParagraphEmpty ==
    /\ At("render", "paragraphs") /\ todo # <<>>
    /\ MatchAdmonition(Head(todo))
    /\ RemoveMarker(Head(todo)) = <<>>
    /\ todo' = Tail(todo)
    /\ UNCHANGED <<step, tmp, RenderRest>>

\* lines 326-341 and 355-361: a macro named after the marker holds the content
ParagraphMacro ==
    /\ At("render", "paragraphs") /\ todo # <<>>
    /\ MatchAdmonition(Head(todo))
    /\ RemoveMarker(Head(todo)) # <<>>
    /\ tmp' = [tmp EXCEPT !.new_blocks =
                  Append(@, [tag  |-> "ac:structured-macro",
                             name |-> MacroName(AdmonitionType(Head(todo))),
                             body |-> RemoveMarker(Head(todo)),
                             para |-> Len(tmp.paragraphs) - Len(todo) + 1])]
    /\ todo' = Tail(todo)
    /\ UNCHANGED <<step, RenderRest>>

\* lines 363-364: new_blocks take the place of the blockquote
BlockquoteReplaced ==
    /\ At("render", "paragraphs") /\ todo = <<>>
    /\ step' = "replaced"
    /\ UNCHANGED <<todo, tmp, RenderRest>>

AdmonitionSpec ==
    Alone("render", "paragraphs", {EmptyMap},
          {[tmp |-> [paragraphs |-> bq, new_blocks |-> <<>>], todo |-> bq] :
              bq \in Blockquotes})
    /\ [][\/ ParagraphPlain \/ ParagraphEmpty
          \/ ParagraphMacro \/ BlockquoteReplaced]_vars

\* --------------------------------------------------- fix_duplicate_links
\* A document is a sequence of lines.  A line holds an autolink <url>
\* ("auto"), a bare url ("bare"), a link whose text is a url in escaped
\* brackets, [\[url\]](target) ("esc"), a link [url](target) ("link"), a
\* text without "http" ("text"), or nothing ("blank").  Every url begins
\* with "https".
MaxLines == 3
Line(kind, url, target) == [kind |-> kind, url |-> url, target |-> target]

Documents ==
    LET urls  == {"https://a", "https://b"}
        lines == {Line(kind, u, "") : kind \in {"auto", "bare"}, u \in urls}
                 \cup {Line("esc", u, v) : u \in urls, v \in urls}
                 \cup {Line("text", "", ""), Line("blank", "", "")}
    IN UNION {[1..k -> lines] : k \in 1..MaxLines}

\* \n*: the place of the first line after the first that is not empty, or 0
FirstAfter(lines) ==
    LET full == {i \in 2..Len(lines) : lines[i].kind # "blank"}
    IN IF full = {} THEN 0 ELSE CHOOSE i \in full : \A j \in full : i <= j

\* link_pattern, line 78, matches from the "https" of the first line (or
\* from its "<") to the end of the link in escaped brackets that begins
\* the next line that is not empty.
LinkPatternMatches(lines) ==
    /\ lines # <<>>
    /\ Head(lines).kind \in {"auto", "bare", "esc"}
    /\ FirstAfter(lines) # 0
    /\ lines[FirstAfter(lines)].kind = "esc"

\* match.group(1).strip().lstrip('<').rstrip('>'), line 82: group 1 is the
\* line from its "https" on, which in [\[url\]](target) is the rest of the
\* line.
RawLink(line) ==
    IF line.kind = "esc" THEN <<line.url, "\\]](", line.target, ")">>
    ELSE <<line.url>>

\* lines 83-87: markdown_url = match.group(3).strip() equals raw_link, one
\* link takes the place of the match
LinksCollapsed ==
    /\ At("duplicate_links", "sub") /\ LinkPatternMatches(todo)
    /\ LET k    == FirstAfter(todo)
           here == Len(tmp.content) - Len(todo) + 1
       IN /\ RawLink(Head(todo)) = <<todo[k].url>>
          /\ tmp' = [tmp EXCEPT !.out =
                        Append(@, [line |-> Line("link", Head(todo).url,
                                                 Head(todo).url),
                                   from |-> here])]
          /\ todo' = SubSeq(todo, k + 1, Len(todo))
    /\ UNCHANGED <<step, RenderRest>>

\* lines 83 and 88-90: the two differ; what precedes the match in its line
\* stays, and raw_link and a link made of markdown_url take the place of
\* the match
LinksUnable ==
    /\ At("duplicate_links", "sub") /\ LinkPatternMatches(todo)
    /\ LET k    == FirstAfter(todo)
           here == Len(tmp.content) - Len(todo) + 1
       IN /\ RawLink(Head(todo)) # <<todo[k].url>>
          /\ tmp' = [tmp EXCEPT !.out =
                        @ \o <<[line |-> IF Head(todo).kind = "esc" THEN Head(todo)
                                         ELSE Line("bare", Head(todo).url, ""),
                                from |-> here],
                               [line |-> Line("link", todo[k].url, todo[k].url),
                                from |-> here + k - 1]>>]
          /\ todo' = SubSeq(todo, k + 1, Len(todo))
    /\ UNCHANGED <<step, RenderRest>>

\* line 92: what the pattern does not match stays
LineKept ==
    /\ At("duplicate_links", "sub") /\ todo # <<>>
    /\ ~LinkPatternMatches(todo)
    /\ tmp' = [tmp EXCEPT !.out =
                  Append(@, [line |-> Head(todo),
                             from |-> Len(tmp.content) - Len(todo) + 1])]
    /\ todo' = Tail(todo)
    /\ UNCHANGED <<step, RenderRest>>

\* line 92: the new content is returned
LinksReturned ==
    /\ At("duplicate_links", "sub") /\ todo = <<>>
    /\ step' = "returned"
    /\ UNCHANGED <<todo, tmp, RenderRest>>

\* fix_duplicate_links on one document.  tmp holds its locals: content, and
\* out, the lines written, each with the place in content of the line it
\* was made from; todo is the content that re.sub has still to scan.
DuplicateLinksSpec ==
    Alone("duplicate_links", "sub", {EmptyMap},
          {[tmp |-> [content |-> doc, out |-> <<>>], todo |-> doc] :
              doc \in Documents})
    /\ [][LinksCollapsed \/ LinksUnable \/ LineKept \/ LinksReturned]_vars

\* ------------------------------------------------ replace_local_slite_links
\* The markdown is a sequence of items: a link [text](link), or text that
\* the pattern of line 457 does not match.  A link's target is a string of
\* tokens, "%20" the encoded space.
MaxItems == 2
BaseDir == <<"/export/">>
Markdowns ==
    LET links == {<<"b.md">>, <<"a", "%20", "b.md">>, <<"c.md">>, <<"https://e">>}
        items == {[kind |-> "link", text |-> text, link |-> link] :
                     text \in {"x", "y"}, link \in links}
                 \cup {[kind |-> "text", text |-> text, link |-> <<>>] :
                          text \in {"words", "[x]"}}
    IN UNION {[1..k -> items] : k \in 1..MaxItems}

\* url_map.json: absolute source paths to destination URLs
UrlMaps ==
    LET keys == {BaseDir \o <<"b.md">>, BaseDir \o <<"a", " ", "b.md">>,
                 BaseDir \o <<"a", "%20", "b.md">>}
    IN {[k \in K |-> <<"https://dest/">> \o k] : K \in SUBSET keys}

\* urllib.parse.unquote(link), line 461
RECURSIVE Unquote(_)
Unquote(link) ==
    IF link = <<>> THEN <<>>
    ELSE <<IF Head(link) = "%20" THEN " " ELSE Head(link)>> \o Unquote(Tail(link))

\* A key made of the decoded target alone.
NoBaseDir(link) == Unquote(link)

\* f"{self.base_dir}{sanitised_link}", line 462
SanitisedLink(link) == BaseDir \o Unquote(link)

\* line 456
ResolveLoad ==
    /\ At("resolve_links", "load")
    /\ memU' = LoadProgress(diskUKind, diskU, memU)
    /\ step' = "sub"
    /\ UNCHANGED <<src, diskVars, memS, phase, todo, tmp, runVars, destVars, hist>>

\* lines 460-466: the key is in the map, the target is replaced
LinkReplaced ==
    /\ At("resolve_links", "sub") /\ todo # <<>>
    /\ Head(todo).kind = "link"
    /\ SanitisedLink(Head(todo).link) \in DOMAIN memU
    /\ tmp' = [tmp EXCEPT !.out =
                  Append(@, [Head(todo) EXCEPT
                                !.link = memU[SanitisedLink(Head(todo).link)]])]
    /\ todo' = Tail(todo)
    /\ UNCHANGED <<step, RenderRest>>

\* lines 460-464 and 467: the key is not in the map, match.group(0) stays
LinkLeft ==
    /\ At("resolve_links", "sub") /\ todo # <<>>
    /\ Head(todo).kind = "link"
    /\ SanitisedLink(Head(todo).link) \notin DOMAIN memU
    /\ tmp' = [tmp EXCEPT !.out = Append(@, Head(todo))]
    /\ todo' = Tail(todo)
    /\ UNCHANGED <<step, RenderRest>>

\* line 468: re.sub keeps what the pattern does not match
TextKept ==
    /\ At("resolve_links", "sub") /\ todo # <<>>
    /\ Head(todo).kind = "text"
    /\ tmp' = [tmp EXCEPT !.out = Append(@, Head(todo))]
    /\ todo' = Tail(todo)
    /\ UNCHANGED <<step, RenderRest>>

\* line 468
ResolveReturned ==
    /\ At("resolve_links", "sub") /\ todo = <<>>
    /\ step' = "returned"
    /\ UNCHANGED <<todo, tmp, RenderRest>>

\* replace_local_slite_links on one markdown document, with a URL map file
\* or none.  tmp holds the markdown and out, what re.sub has written.
ResolveLinksSpec ==
    Alone("resolve_links", "load", UrlMaps,
          {[tmp |-> [markdown |-> md, out |-> <<>>], todo |-> md] :
              md \in Markdowns})
    /\ [][\/ ResolveLoad \/ LinkReplaced \/ LinkLeft
          \/ TextKept \/ ResolveReturned]_vars

\* ------------------------------------------------------- sanitise_content
\* The content is a sequence of segments.  A segment lies in a fenced code
\* block, in an inline code span or outside code, and its text is an HTML
\* snippet <b>x</b>, a tag <foo> that HTML does not know, an autolink, or
\* words with no tag.
MaxSegments == 2
Contents ==
    LET segments == [place : {"fenced", "inline", "outside"},
                     text  : {"<b>x</b>", "<foo>", "<https://e>", "words"}]
    IN UNION {[1..k -> segments] : k \in 1..MaxSegments}

\* _remove_code_blocks, lines 30-37: the content without its code
RemoveCodeBlocks(content) == SelectSeq(content, LAMBDA g : g.place = "outside")

\* match.group(1) or match.group(2) of html_tag_pattern, lower case
\* (lines 41-50); "" where the pattern does not match
HtmlTag(text) ==
    CASE text = "<b>x</b>" -> "b"
      [] text = "<foo>" -> "foo"
      [] text = "<https://e>" -> "https"
      [] OTHER -> ""

\* html_tag_pattern.finditer(content_for_sanitising), line 48
HtmlSnippets(content_for_sanitising) ==
    LET found == SelectSeq(content_for_sanitising, LAMBDA g : HtmlTag(g.text) # "")
    IN [i \in 1..Len(found) |-> found[i].text]

\* self.valid_html_tags, lines 8-19, as far as the texts go
ValidHtmlTags == {"b"}

\* "http" in html_snippet, line 53
HoldsHttp(html_snippet) == html_snippet = "<https://e>"

\* html_snippet.replace("<", "&lt;").replace(">", "&gt;"), line 58
EscapeBrackets(html_snippet) ==
    CASE html_snippet = "<foo>" -> "&lt;foo&gt;"
      [] html_snippet = "<https://e>" -> "&lt;https://e&gt;"
      [] html_snippet = "<b>x</b>" -> "&lt;b&gt;x&lt;/b&gt;"
      [] OTHER -> html_snippet

\* md(html_snippet, ...), lines 64-71
Markdownify(html_snippet) ==
    CASE html_snippet = "<b>x</b>" -> "**x**"
      [] OTHER -> html_snippet

\* content.replace(html_snippet, sanitised_snippet), lines 59 and 73: every
\* occurrence in the content
ReplaceEvery(content, html_snippet, sanitised_snippet) ==
    [i \in DOMAIN content |->
        IF content[i].text = html_snippet
        THEN [content[i] EXCEPT !.text = sanitised_snippet]
        ELSE content[i]]

\* lines 52-55: not an HTML tag, but "http" in it
AutolinkPassed ==
    /\ At("sanitise_content", "finditer") /\ todo # <<>>
    /\ HtmlTag(Head(todo)) \notin ValidHtmlTags /\ HoldsHttp(Head(todo))
    /\ todo' = Tail(todo)
    /\ UNCHANGED <<step, tmp, RenderRest>>

\* lines 52 and 56-60: not an HTML tag, its angular brackets are escaped
SnippetEscaped ==
    /\ At("sanitise_content", "finditer") /\ todo # <<>>
    /\ HtmlTag(Head(todo)) \notin ValidHtmlTags /\ ~HoldsHttp(Head(todo))
    /\ tmp' = [tmp EXCEPT !.content =
                  ReplaceEvery(@, Head(todo), EscapeBrackets(Head(todo)))]
    /\ todo' = Tail(todo)
    /\ UNCHANGED <<step, RenderRest>>

\* lines 62-73: an HTML tag, the snippet is turned into markdown
SnippetConverted ==
    /\ At("sanitise_content", "finditer") /\ todo # <<>>
    /\ HtmlTag(Head(todo)) \in ValidHtmlTags
    /\ tmp' = [tmp EXCEPT !.content =
                  ReplaceEvery(@, Head(todo), Markdownify(Head(todo)))]
    /\ todo' = Tail(todo)
    /\ UNCHANGED <<step, RenderRest>>

\* line 75
SanitiseReturned ==
    /\ At("sanitise_content", "finditer") /\ todo = <<>>
    /\ step' = "returned"
    /\ UNCHANGED <<todo, tmp, RenderRest>>

\* sanitise_content on one content.  tmp holds the content it was given
\* (given) and content as rewritten so far; todo the snippets finditer has
\* still to yield.
SanitiseSpec ==
    Alone("sanitise_content", "finditer", {EmptyMap},
          {[tmp |-> [given |-> c, content |-> c],
            todo |-> HtmlSnippets(RemoveCodeBlocks(c))] : c \in Contents})
    /\ [][\/ AutolinkPassed \/ SnippetEscaped
          \/ SnippetConverted \/ SanitiseReturned]_vars

\* ------------------------------------------------- _generate_space_key
\* A channel is a directory of the export; its name is a string of the
\* letters "a" and "b", the hyphen and the space, at most MaxName long.
\* generate_structure_json visits the channels of one listing, whose names
\* all differ.
MaxName == 3
KeyLen == 10
ChannelListings ==
    LET names == UNION {[1..k -> {"a", "b", "-", " "}] : k \in 1..MaxName}
    IN {listing \in names \X names : listing[1] # listing[2]}

\* The first characters of the words of str.split(): a word begins where a
\* character that is not a space follows a space or begins the string.
Initials(str) ==
    LET starts == {i \in DOMAIN str :
                      str[i] # " " /\ (i = 1 \/ str[i - 1] = " ")}
    IN [k \in 1..Cardinality(starts) |-> str[Ascending(starts)[k]]]

\* _generate_space_key, lines 130-136
GenerateSpaceKey(name) ==
    LET upper(ch) == CASE ch = "a" -> "A" [] ch = "b" -> "B" [] OTHER -> ch
        first(s)  == SubSeq(s, 1, IF Len(s) < KeyLen THEN Len(s) ELSE KeyLen)
        words     == [i \in DOMAIN name |->
                         IF name[i] = "-" THEN " " ELSE upper(name[i])]
        key       == first(Initials(words))
    IN IF key = <<>> THEN [i \in DOMAIN first(name) |-> upper(name[i])]
       ELSE key

\* generate_structure_json, lines 42-79: one turn of the loop gives the
\* channel its space_key and its entry in self.structure
ChannelKeyed ==
    /\ At("space_keys", "listdir") /\ todo # <<>>
    /\ tmp' = [tmp EXCEPT !.structure =
                  Append(@, [channel   |-> Head(todo),
                             space_key |-> GenerateSpaceKey(Head(todo))])]
    /\ todo' = Tail(todo)
    /\ UNCHANGED <<step, RenderRest>>

\* lines 81-82: the tree is saved
KeysSaved ==
    /\ At("space_keys", "listdir") /\ todo = <<>>
    /\ step' = "saved"
    /\ UNCHANGED <<todo, tmp, RenderRest>>

\* The loop of generate_structure_json over one listing of channels; tmp
\* holds the entries of self.structure in the order they were made.
SpaceKeySpec ==
    Alone("space_keys", "listdir", {EmptyMap},
          {[tmp |-> [structure |-> <<>>], todo |-> names] :
              names \in ChannelListings})
    /\ [][ChannelKeyed \/ KeysSaved]_vars

\* ================================================================ claims
\* The step issued the API call op for a unit (a channel or a page).
Issued(op, unit) == hist' # hist /\ hist'.op = op /\ hist'.unit = unit

\* The persisted flags of a page (a missing or incomplete file holds none).
DiskUploaded(n) == diskSKind = "ok" /\ diskS.page[n].uploaded

\* C1: re-running migrate_pages on a state tree in which a page's uploaded
\* flag is true, in memory or as persisted, never issues a create-page call
\* for that page.
C1_UploadedNeverRecreated ==
    [][\A n \in Pages :
          Issued("create_page", n) => ~memS.page[n].uploaded /\ ~DiskUploaded(n)]_vars

\* C1 witness: a second run stands in the loop of _migrate_pages at a page
\* whose persisted uploaded flag is true.
C1_Witness ==
    /\ runs = 2 /\ At("pages", "loop") /\ todo # <<>>
    /\ DiskUploaded(Head(todo)) /\ memS.page[Head(todo)].uploaded

\* C2 (as claimed): over any sequence of runs and kills, no create-page call
\* is issued for a page that a create-page call already created.
C2_CreatePageAtMostOnce ==
    [][\A n \in Pages :
          Issued("create_page", n) => ~\E d \in destPages : d.node = n]_vars

\* Every page the persisted tree holds is uploaded.
AllUploaded == diskSKind = "ok" /\ \A n \in InTree(diskS) : diskS.page[n].uploaded

\* C3 (as claimed): a run that follows a kill in migrate_pages and meets no
\* transient destination failure ends with every page uploaded.
C3_ResumeCompletes ==
    (phase = "idle" /\ outcome.resumed /\ okRun /\ diskSKind = "ok"
        /\ outcome.how \in {"done", "aborted"})
    => (outcome.phase # "pages" /\ AllUploaded)

\* uploaded <=> page_id bound, and the id is one create_page returned for
\* that page.
PageFlagsAgree(S) ==
    \A n \in Pages :
       /\ S.page[n].uploaded <=> S.page[n].page_id # 0
       /\ S.page[n].uploaded =>
             \E d \in destPages : d.node = n /\ d.id = S.page[n].page_id

\* C4: in memory and as persisted, a page's uploaded flag is true iff its
\* page_id is bound, and the id is the one a successful create-page call
\* returned for that page.
C4_UploadedIffPageId == PageFlagsAgree(memS) /\ PageFlagsAgree(diskS)

\* C4 witness: a page is persisted as uploaded, with its id.
C4_Witness ==
    diskSKind = "ok" /\ \E n \in Pages : diskS.page[n].uploaded /\ diskS.page[n].page_id # 0

SpaceFlagsAgree(S) ==
    \A c \in Channels :
       /\ S.chan[c].space_created <=> S.chan[c].space_id # 0
       /\ S.chan[c].space_created =>
             destSpaces[c] # 0 /\ S.chan[c].space_id = destSpaces[c]

\* C5: in memory and as persisted, a channel's space_created flag is true
\* iff a create-space call returned for the channel and the id it returned
\* is bound to space_id.
C5_SpaceCreatedIffSpaceId == SpaceFlagsAgree(memS) /\ SpaceFlagsAgree(diskS)

\* C5 witness: one channel is persisted as created while the space of
\* another exists at the destination without its flag.
C5_Witness ==
    /\ diskSKind = "ok"
    /\ \E c, e \in Channels :
          /\ diskS.chan[c].space_created
          /\ destSpaces[e] # 0 /\ ~diskS.chan[e].space_created

\* C6 (as claimed): over any sequence of runs, no create-space call is
\* issued for a channel whose space the destination already created.
C6_CreateSpaceAtMostOnce ==
    [][\A c \in Channels : Issued("create_space", c) => destSpaces[c] = 0]_vars

DiskSent(p, i) ==
    /\ diskSKind = "ok" /\ i <= Len(diskS.page[p].media)
    /\ diskS.page[p].media[i].uploaded
MemSent(p, i) ==
    i <= Len(memS.page[p].media) /\ memS.page[p].media[i].uploaded

\* C7: media_uploaded[filename].uploaded of a page of the tree never goes
\* back from true to false, in the file as long as it is readable and in
\* memory as long as the process lives, and no upload-attachment call is issued for a file
\* whose flag is true.
C7_MediaUploadedOnce ==
    [][\A p \in Pages : \A i \in 1..MaxMedia :
          /\ (Issued("upload_attachment", p) /\ hist'.file = i)
                => ~MemSent(p, i) /\ ~DiskSent(p, i)
          /\ (DiskSent(p, i) /\ diskSKind' = "ok" /\ p \in InTree(diskS'))
                => DiskSent(p, i)'
          /\ (MemSent(p, i) /\ phase' # "idle") => MemSent(p, i)']_vars

\* C7 witness: a second run stands in the file loop at a file whose
\* persisted flag is true.
C7_Witness ==
    /\ runs = 2 /\ InFiles
    /\ DiskSent(Head(todo), tmp.file) /\ MemSent(Head(todo), tmp.file)

Republish(why, n) ==
    /\ hist' # hist /\ hist'.op \in {"get_page", "update_page"}
    /\ hist'.why = why /\ hist'.unit = n

\* C8: links_fixed and media_links_fixed of a page of the tree never go
\* back from true to false, in the file as long as it is readable and in memory as long as the
\* process lives, and no get-page or update-page call of the republish a
\* flag stands for is issued for a page whose flag is true.
C8_LinkFlagsMonotone ==
    [][\A n \in Pages :
          /\ Republish("links", n)
                => ~memS.page[n].links_fixed /\ ~diskS.page[n].links_fixed
          /\ Republish("media", n)
                => ~memS.page[n].media_links_fixed /\ ~diskS.page[n].media_links_fixed
          /\ (diskS.page[n].links_fixed /\ diskSKind' = "ok" /\ n \in InTree(diskS'))
                => diskS'.page[n].links_fixed
          /\ (diskS.page[n].media_links_fixed /\ diskSKind' = "ok"
                /\ n \in InTree(diskS'))
                => diskS'.page[n].media_links_fixed
          /\ (memS.page[n].links_fixed /\ phase' # "idle")
                => memS'.page[n].links_fixed
          /\ (memS.page[n].media_links_fixed /\ phase' # "idle")
                => memS'.page[n].media_links_fixed]_vars

\* C8 witness: a second run stands in the loop of fix_all_references at a
\* page persisted with both flags true.
C8_Witness ==
    /\ runs = 2 /\ At("fix", "loop") /\ todo # <<>>
    /\ diskS.page[Head(todo)].links_fixed
    /\ diskS.page[Head(todo)].media_links_fixed

\* C9 (as claimed): every entry once written to url_map.json is still there
\* after every later save.
C9_UrlMapOnlyGrows ==
    [][(diskUKind = "ok" /\ diskUKind' = "ok")
          => \A k \in DOMAIN diskU : k \in DOMAIN diskU']_vars

\* No two pages below a channel have titles equal but for case.
UniqueTitles(S) ==
    \A c \in Channels :
       \A p, q \in Range(PreorderSeq(S, S.kids[ChanBox(c)])) :
          p # q => Lower(S.title[p]) # Lower(S.title[q])

\* C10 (as claimed): when deduplicate_titles has run, no two pages of a
\* channel's subtree have titles that are equal under case-insensitive
\* comparison.
C10_TitlesUniqueAfterDedup ==
    At("dedup", "save_structure") => UniqueTitles(memS)

\* The title of the page whose dict holds page p, or the channel's name
\* (parent_title of collect_titles).
ParentTitle(S, p) ==
    IF src.parent[p] < 0 THEN ChannelName(0 - src.parent[p])
    ELSE S.title[src.parent[p]]

\* new is old followed by " (parent_title)" and, maybe, by a random suffix.
Disambiguated(old, parent_title, new) ==
    \/ new = WithParent(old, parent_title)
    \/ \E sfx \in RandomSuffixes : new = WithSuffix(WithParent(old, parent_title), sfx)

\* C11 (as claimed): in a pass of deduplicate_titles, two pages of a channel
\* whose titles are equal but for case end with distinct titles, and the
\* title of each is its title before the pass followed by
\* " (parent title or channel name)" and, maybe, by a random suffix.
C11_RenamedFromOriginal ==
    [][(At("dedup", "run") /\ phase' = "dedup" /\ step' = "save_structure")
          => LET S0 == LoadProgress(diskSKind, diskS, memS)
                 S1 == memS'
             IN \A c \in Channels :
                   \A p, q \in Range(PreorderSeq(S0, S0.kids[ChanBox(c)])) :
                      (p # q /\ Lower(S0.title[p]) = Lower(S0.title[q]))
                         => /\ (p \in InTree(S1) /\ q \in InTree(S1))
                                  => S1.title[p] # S1.title[q]
                            /\ p \in InTree(S1)
                                  => Disambiguated(S0.title[p], ParentTitle(S0, p),
                                                   S1.title[p])]_vars

\* The destination holds a space or a page.
DestinationHolds == (\E c \in Channels : destSpaces[c] # 0) \/ destPages # {}

\* C12 (as claimed): once a space or a page has been created, no step, a
\* resumed run's deduplicate_titles included, renames a page of the state
\* tree, in memory or in the state file.
C12_NoRenameAfterCreation ==
    [][DestinationHolds
          => /\ (At("dedup", "run") /\ phase' = "dedup")
                   => LET S0 == LoadProgress(diskSKind, diskS, memS)
                      IN \A p \in InTree(S0) \cap InTree(memS') :
                            memS'.title[p] = S0.title[p]
             /\ (diskSKind = "ok" /\ diskSKind' = "ok")
                   => \A p \in InTree(diskS) \cap InTree(diskS') :
                         diskS'.title[p] = diskS.title[p]]_vars

\* C13: generate_structure_json, called while the state file exists, leaves
\* the state file, the URL map file and the tree and map in memory as they
\* are, and goes on to deduplicate_titles.
C13_DiscoverTwiceChangesNothing ==
    [][(At("generate", "check") /\ diskSKind # "absent")
          => /\ phase' \in {"dedup", "idle"}
             /\ UNCHANGED diskVars
             /\ phase' = "dedup" => UNCHANGED memVars]_vars

\* C13 witness: a second run has skipped discovery on a state file that
\* holds channels and pages.
C13_Witness ==
    /\ runs = 2 /\ At("dedup", "run")
    /\ diskSKind = "ok" /\ diskS.chans # {} /\ InTree(diskS) # {}
    /\ diskUKind = "ok" /\ memS = EmptyStruct

\* C14: a create-page call for a page in a page's folder is issued only
\* when that parent page is uploaded and bound to an id that create-page
\* returned for it, and the page is created under that id; a page in a
\* channel's folder is created with no parent; every page is created in the
\* space of its channel.
C14_ChildAfterParent ==
    [][\A n \in Pages :
          Issued("create_page", n)
             => LET b == src.parent[n]
                IN /\ b > 0 => /\ memS.page[b].uploaded
                               /\ \E e \in destPages :
                                     e.node = b /\ e.id = memS.page[b].page_id
                   /\ \A d \in destPages' \ destPages :
                         /\ d.node = n
                         /\ d.space # 0
                         /\ d.space = destSpaces[ChannelOfBox(src.parent,
                                                              src.parent[n])]
                         /\ d.parent = IF b < 0 THEN 0 ELSE memS.page[b].page_id]_vars

\* C14 witness: the destination holds a page created under a parent page
\* and a page created under no parent.
C14_Witness ==
    /\ \E d \in destPages : src.parent[d.node] > 0 /\ d.parent # 0
    /\ \E d \in destPages : src.parent[d.node] < 0 /\ d.parent = 0

\* C15 (as claimed): the markdown that migrate_media publishes for a page
\* holds the attachment URL only for the files whose uploaded flag is true.
C15_RewriteOnlyUploaded ==
    At("media", "update")
       => \A i \in tmp.markdown : memS.page[Head(todo)].media[i].uploaded

\* C16: an upload-attachment call that fails leaves an error string on the
\* file's status entry, with its uploaded flag false, and the run goes on
\* in the file loop of the same page, at the next file, with the pages
\* still to visit unchanged.
C16_UploadFailureIsLocal ==
    [][\A n \in Pages : \A i \in 1..MaxMedia :
          (Issued("upload_attachment", n) /\ hist'.file = i /\ ~hist'.ok)
             => /\ phase' = "media" /\ step' = "files"
                /\ todo' = todo /\ Head(todo) = n
                /\ tmp'.file = i + 1
                /\ memS'.page[n].media[i].error # ""
                /\ ~memS'.page[n].media[i].uploaded
                /\ \A j \in DOMAIN memS.page[n].media :
                      j # i => memS'.page[n].media[j] = memS.page[n].media[j]]_vars

\* C16 witness: after a failed upload of a page's first file, the first
\* run has uploaded the second file of that page and stands at a later page with
\* media.
C16_Witness ==
    /\ phase = "media" /\ todo # <<>> /\ Head(todo) # 1
    /\ memS.page[Head(todo)].media # <<>>
    /\ runs = 1
    /\ memS.page[1].media[1].error = "upload failed"
    /\ memS.page[1].media[2].uploaded

\* The pages after page n in the order migrate_pages visits them.
RECURSIVE After(_, _)
After(s, n) ==
    IF s = <<>> THEN {}
    ELSE IF Head(s) = n THEN Range(Tail(s)) ELSE After(Tail(s), n)

\* The state file holds every flag and id the tree in memory holds, and a
\* flag only for a unit the destination created under that id.
SavedAsCompleted ==
    /\ diskSKind = "ok"
    /\ diskS.chan = memS.chan /\ diskS.page = memS.page
    /\ PageFlagsAgree(diskS) /\ SpaceFlagsAgree(diskS)

C18_RetryWithBackoff ==
    (phase = "client" /\ step # "call")
       => /\ tmp.max_retries = IF tmp.op = "upload_attachment" THEN 3 ELSE 5
          /\ Len(tmp.seen) <= tmp.max_retries
          /\ \A k \in 1..(Len(tmp.seen) - 1) :
                tmp.seen[k] \in {429, 500, 502, 503, 504}
          /\ \A k \in 1..(Len(tmp.seen) - 1) : k \in DOMAIN tmp.slept
          /\ \A k \in DOMAIN tmp.slept :
                tmp.slept[k] = <<1, 2, 4, 8, 16>>[k]
          /\ step = "send" => Len(tmp.slept) = Len(tmp.seen)
          /\ step \in {"check", "returned", "raised"} => tmp.seen # <<>>

\* C18 witness: an operation has used up its five requests and ends on the
\* fifth response.
C18_Witness ==
    /\ At("client", "raised") /\ Len(tmp.seen) = 5
    /\ tmp.slept = <<1, 2, 4, 8, 16>> /\ tmp.error = tmp.seen[5]

HoldsMarker(str) ==
    \E i \in 1..Len(str) : BeginsWithMarker(SubSeq(str, i, Len(str)))

\* The callout kind the claim gives for a marker's word.
ClaimedKind(word) ==
    CASE word \in {"NOTE", "note", "Note"} -> "info"
      [] word \in {"WARNING", "warning", "Warning"} -> "warning"
      [] word \in {"TIP", "tip", "Tip"} -> "tip"
      [] word \in {"IMPORTANT", "important", "Important"} -> "important"
      [] word \in {"CAUTION", "caution", "Caution"} -> "caution"
      [] OTHER -> "info"

\* C20 (as claimed): when convert_admonitions has replaced a blockquote,
\* the blocks stand in the order of their paragraphs; a paragraph whose
\* text begins with a [!KIND] marker has become a callout of the kind the
\* marker names, with the marker stripped from its content, or no block if
\* nothing follows the marker; a paragraph without a leading marker has
\* become itself.
C20_AdmonitionsConverted ==
    At("render", "replaced")
       => LET out == tmp.new_blocks
              bq  == tmp.paragraphs
          IN /\ \A i, j \in DOMAIN out : i < j => out[i].para < out[j].para
             /\ \A k \in DOMAIN bq :
                   LET text   == Strip(TextOf(bq[k]))
                       blocks == {i \in DOMAIN out : out[i].para = k}
                   IN IF BeginsWithMarker(text)
                      THEN IF Len(text) = 4 THEN blocks = {}
                           ELSE \E i \in blocks :
                                   /\ blocks = {i}
                                   /\ out[i].tag = "ac:structured-macro"
                                   /\ out[i].name = ClaimedKind(text[3])
                                   /\ ~HoldsMarker(out[i].body)
                      ELSE \E i \in blocks :
                              /\ blocks = {i}
                              /\ out[i].tag = "p" /\ out[i].body = bq[k]

\* The lines written for the lines of content at the places in from.
WrittenFor(from) ==
    LET made == SelectSeq(tmp.out, LAMBDA w : w.from \in from)
    IN [i \in 1..Len(made) |-> made[i].line]

\* C21 (as claimed): when fix_duplicate_links has returned, an autolink or
\* bare url followed on the next line by a link whose text is a url in
\* escaped brackets has become, with that link, the one link [url](url) if
\* the two urls are equal, and otherwise both lines are there unchanged,
\* the autolink first.
C21_DuplicateLinksCollapsed ==
    At("duplicate_links", "returned")
       => \A i \in 1..(Len(tmp.content) - 1) :
             LET first  == tmp.content[i]
                 second == tmp.content[i + 1]
             IN (first.kind \in {"auto", "bare"} /\ second.kind = "esc")
                   => IF first.url = second.url
                      THEN WrittenFor({i, i + 1}) = <<Line("link", first.url, first.url)>>
                      ELSE WrittenFor({i, i + 1}) = <<first, second>>

\* The target with every "%20" read as a space.
UrlDecoded(link) == [i \in DOMAIN link |-> IF link[i] = "%20" THEN " " ELSE link[i]]

\* C22: when replace_local_slite_links has returned, the result holds an
\* item for each item of the markdown, in order: for a link whose target,
\* url-decoded and prefixed with base_dir, is a key of the URL map, the
\* link with the same text and the mapped URL as its target; for any other
\* link and for text outside links, the item itself.
C22_LinksResolved ==
    At("resolve_links", "returned")
       => /\ Len(tmp.out) = Len(tmp.markdown)
          /\ \A i \in DOMAIN tmp.markdown :
                LET item == tmp.markdown[i]
                    key  == <<"/export/">> \o UrlDecoded(item.link)
                    map  == IF diskUKind = "ok" THEN diskU ELSE <<>>
                IN IF item.kind = "link" /\ key \in DOMAIN map
                   THEN tmp.out[i] = [kind |-> "link", text |-> item.text,
                                      link |-> map[key]]
                   ELSE tmp.out[i] = item

\* C22 witness: a markdown with text, a link with an encoded target whose
\* key the map holds, now replaced, and the map is loaded.
C22_Witness ==
    /\ At("resolve_links", "returned")
    /\ BaseDir \o <<"a", " ", "b.md">> \in DOMAIN memU
    /\ \E i, j \in DOMAIN tmp.markdown :
          /\ tmp.markdown[i].link = <<"a", "%20", "b.md">>
          /\ tmp.out[i].link = memU[BaseDir \o <<"a", " ", "b.md">>]
          /\ tmp.markdown[j].kind = "text" /\ tmp.out[j] = tmp.markdown[j]

\* The pages the walk has still to reach: those listed and the pages
\* below them.
Ahead(S, s) == Range(PreorderSeq(S, s))

\* The page has a media file that is not uploaded yet.
HasPending(S, q) == \E i \in DOMAIN S.page[q].media : ~S.page[q].media[i].uploaded

\* C23 (as claimed): when the walk of migrate_media leaves a page, every
\* page below it that has a media file not yet uploaded is still ahead of
\* the walk, also when the page left has media_links_fixed true: no page
\* with a file to upload is passed over.
C23_MediaWalkReachesAll ==
    [][(phase = "media" /\ phase' = "media" /\ todo # <<>> /\ todo' # todo)
          => \A q \in Ahead(memS, todo) \ {Head(todo)} :
                HasPending(memS, q) => q \in Ahead(memS', todo')]_vars

\* C24 (as claimed): the content that fix_all_references sends in
\* update_page for a page that migrate_media has published with its media
\* references rewritten holds the attachment URL for each of the page's
\* media files.
C24_FixKeepsMediaLinks ==
    [][\A n \in Pages :
          (Issued("update_page", n) /\ hist'.why = "links"
              /\ memS.page[n].media_links_fixed)
             => hist'.content = 1..Len(memS.page[n].media)]_vars

\* C25 (as claimed): a pass of deduplicate_titles leaves every channel with
\* the pages it had, and every page with its record and its child pages:
\* no page is lost.
C25_DedupOnlyMovesKeys ==
    [][(At("dedup", "run") /\ phase' = "dedup")
          => LET S0 == LoadProgress(diskSKind, diskS, memS)
             IN /\ \A c \in Channels :
                      Range(PreorderSeq(memS', memS'.kids[ChanBox(c)]))
                         = Range(PreorderSeq(S0, S0.kids[ChanBox(c)]))
                /\ \A p \in InTree(S0) :
                      /\ memS'.page[p] = S0.page[p]
                      /\ Range(memS'.kids[p]) = Range(S0.kids[p])]_vars

\* The flag as the state file holds it.
DiskMediaLinked(n) == diskSKind = "ok" /\ diskS.page[n].media_links_fixed

\* C26: media_links_fixed of a page becomes true, where the state file does
\* not hold it, only in the step of migrate_media in which update_page
\* returned for that page; the next step of the run saves the tree, and
\* only that save brings the flag to the file; a get_page or update_page of
\* the republish that fails ends the run with the flag false in the file.
C26_MediaLinksFixedOnSuccess ==
    [][\A n \in Pages :
          /\ (memS'.page[n].media_links_fixed /\ ~memS.page[n].media_links_fixed
                 /\ ~DiskMediaLinked(n))
                => /\ At("media", "update") /\ Head(todo) = n
                   /\ Issued("update_page", n) /\ hist'.why = "media" /\ hist'.ok
                   /\ phase' = "media" /\ step' = "save_links" /\ todo' = todo
          /\ (At("media", "save_links") /\ phase' # "idle")
                => diskSKind' = "ok" /\ diskS' = memS
          /\ (DiskMediaLinked(n)' /\ ~DiskMediaLinked(n))
                => At("media", "save_links") /\ Head(todo) = n
          /\ (Republish("media", n) /\ ~hist'.ok)
                => /\ phase' = "idle" /\ outcome'.how = "aborted"
                   /\ UNCHANGED diskVars
                   /\ ~memS.page[n].media_links_fixed
                   /\ ~diskS.page[n].media_links_fixed]_vars

\* C26 witness: in a second run the flag of a page is in the state file and
\* in memory while the flag of another page with media is still false.
C26_Witness ==
    /\ runs = 2 /\ At("media", "loop") /\ diskSKind = "ok"
    /\ \E n, m \in Pages :
          /\ diskS.page[n].media_links_fixed /\ memS.page[n].media_links_fixed
          /\ memS.page[m].media # <<>> /\ ~memS.page[m].media_links_fixed

\* C27: in fix_all_references, at a page with a page id whose links_fixed
\* is false, the run goes on to get_page and update_page if a link of the
\* page's markdown is a key of url_map.json, and otherwise leaves the page
\* with no call, its flag false and the state file as it is; links_fixed
\* becomes true, where the state file does not hold it, only in the step in
\* which update_page returned for the page; a get_page or update_page of
\* this republish is issued only for a page whose flag is false and whose
\* markdown changed, and one that fails ends the run with the flag false.
C27_LinksFixedOnlyOnChange ==
    [][\A n \in Pages :
          /\ (At("fix", "loop") /\ todo # <<>> /\ Head(todo) = n /\ phase' = "fix"
                 /\ memS.page[n].page_id # 0 /\ ~memS.page[n].links_fixed)
                => IF LinksOf(src, n) \cap DOMAIN LoadProgress(diskUKind, diskU, memU) # {}
                   THEN step' = "get" /\ todo' = todo /\ memS' = memS
                   ELSE /\ step' = "loop" /\ hist' = NoCall
                        /\ n \notin Range(todo')
                        /\ memS' = memS /\ UNCHANGED diskVars
          /\ (memS'.page[n].links_fixed /\ ~memS.page[n].links_fixed
                 /\ ~(diskSKind = "ok" /\ diskS.page[n].links_fixed))
                => /\ At("fix", "update") /\ Head(todo) = n
                   /\ Issued("update_page", n) /\ hist'.why = "links" /\ hist'.ok
                   /\ phase' = "fix" /\ step' = "save_structure"
          /\ Republish("links", n)
                => /\ phase = "fix" /\ Head(todo) = n
                   /\ ~memS.page[n].links_fixed
                   /\ LinksOf(src, n) \cap DOMAIN memU # {}
          /\ (Republish("links", n) /\ ~hist'.ok)
                => /\ phase' = "idle" /\ outcome'.how = "aborted"
                   /\ UNCHANGED diskVars
                   /\ ~diskS.page[n].links_fixed]_vars

\* C27 witness: fix_all_references has visited every page; the links of
\* one page are fixed and saved, and a page whose markdown holds no link to
\* resolve has kept its flag false.
C27_Witness ==
    /\ At("fix", "loop") /\ todo = <<>> /\ diskSKind = "ok"
    /\ \E n, m \in InTree(memS) :
          /\ memS.page[n].links_fixed /\ diskS.page[n].links_fixed
          /\ memS.page[m].page_id # 0 /\ ~memS.page[m].links_fixed
          /\ LinksOf(src, m) = {}

\* C28: every update_page call of the run, for a space's home page, for
\* the media links of a page and for the links of a page, follows in the
\* next step a get_page call that returned for the same page id, and its
\* version is the version number that get_page returned plus one.
C28_UpdateAfterGetPlusOne ==
    [][(hist' # hist /\ hist'.op = "update_page")
          => /\ hist.op = "get_page" /\ hist.ok
             /\ hist.why = hist'.why /\ hist.unit = hist'.unit
             /\ hist.id = hist'.id /\ hist'.id # 0
             /\ hist.version >= 1
             /\ hist'.version = hist.version + 1]_vars

\* C28 witness: a republish of a page's links was sent with version 3 after
\* get_page returned version 2 for the page, whose media republish went
\* before.
C28_Witness ==
    /\ At("fix", "save_structure")
    /\ hist.op = "update_page" /\ hist.why = "links" /\ hist.ok
    /\ hist.version = 3 /\ hist.id = memS.page[Head(todo)].page_id
    /\ memS.page[Head(todo)].media_links_fixed

\* C29 (as claimed): whatever a step does, a kill during a save included,
\* each of the two files holds after it what it held before or, complete,
\* what the process held in memory.
C29_SaveAllOrNothing ==
    [][/\ \/ diskSKind' = diskSKind /\ diskS' = diskS
          \/ diskSKind' = "ok" /\ diskS' = memS
       /\ \/ diskUKind' = diskUKind /\ diskU' = diskU
          \/ diskUKind' = "ok" /\ diskU' = memU]_vars

\* C30 (as claimed): when sanitise_content has returned, every segment
\* inside a fenced code block or an inline code span is as it was given,
\* and so is every segment outside code that holds no tag or holds an
\* autolink; only the other segments outside code have a new text.
C30_CodeUntouched ==
    At("sanitise_content", "returned")
       => \A i \in DOMAIN tmp.given :
             LET g == tmp.given[i]
             IN /\ tmp.content[i].place = g.place
                /\ g.place \in {"fenced", "inline"} => tmp.content[i].text = g.text
                /\ (g.place = "outside" /\ g.text \in {"words", "<https://e>"})
                      => tmp.content[i].text = g.text
                /\ (g.place = "outside" /\ g.text \in {"<b>x</b>", "<foo>"})
                      => tmp.content[i].text # g.text

\* C31 (as claimed): when discovery has gone through the channels, any two
\* channels of the state tree with different names hold different
\* space_key values.
C31_DistinctSpaceKeys ==
    At("space_keys", "saved")
       => \A i, j \in DOMAIN tmp.structure :
             tmp.structure[i].channel # tmp.structure[j].channel
                => tmp.structure[i].space_key # tmp.structure[j].space_key

====
